---- MODULE Spec2Model ----
(***************************************************************************)
(* Tusk: one JSON day-file per calendar day.  The model covers the path    *)
(* resolver and the day-file store (utils/files.rs), the item model        *)
(* (models/item.rs, models/dayfile.rs) and the command handlers of main.rs *)
(* (add, ls, done, undone, rm, edit, show, migrate).                       *)
(*                                                                         *)
(* Texts are sequences of one-character strings, so that trimming,         *)
(* splitting, formatting and parsing are computed and not assumed.  A path *)
(* is a sequence of components, each a string.  The disk is a function     *)
(* from the paths that exist to file contents.                             *)
(***************************************************************************)
EXTENDS Integers, Sequences, FiniteSets, TLC

(***************************************************************************)
(* Bounds of the model.                                                    *)
(***************************************************************************)
MaxAdds == 2        \* runs of add
MaxClock == 1       \* last instant Utc::now() can return (instants 0..MaxClock)
MaxVaultLen == 2    \* characters of a vault name

(***************************************************************************)
(* Option<T> and io::Result<T>.                                            *)
(***************************************************************************)
None == [some |-> FALSE]
Some(x) == [some |-> TRUE, val |-> x]

Ok(v) == [ok |-> TRUE, val |-> v]
Err(k) == [ok |-> FALSE, kind |-> k]

(***************************************************************************)
(* Sequence helpers (Vec operations used by the handlers).                 *)
(***************************************************************************)
\* A faulty remove, which takes out the element before the one asked for.
VecRemoveOffByOne(items, pos) ==
    SubSeq(items, 1, pos - 1) \o SubSeq(items, pos + 1, Len(items))
\* Vec::remove(pos) with a 0-based pos < len: the later elements shift left.
VecRemove(items, pos) ==
    SubSeq(items, 1, pos) \o SubSeq(items, pos + 2, Len(items))

(***************************************************************************)
(* Text.                                                                   *)
(***************************************************************************)
Whitespace == {" ", "\n", "\t"}

RECURSIVE TrimStart(_)
TrimStart(s) ==
    IF s # <<>> /\ Head(s) \in Whitespace THEN TrimStart(Tail(s)) ELSE s

RECURSIVE TrimEnd(_)
TrimEnd(s) ==
    IF s # <<>> /\ s[Len(s)] \in Whitespace
    THEN TrimEnd(SubSeq(s, 1, Len(s) - 1)) ELSE s

\* str::trim
Trim(s) == TrimEnd(TrimStart(s))

\* sanitise_str: the trimmed text, or InvalidInput when nothing is left.
NonEmpty(trimmed) ==
    IF trimmed = <<>> THEN Err("InvalidInput") ELSE Ok(trimmed)
SanitiseStr(text) == NonEmpty(Trim(text))

RECURSIVE SplitWhitespaceFrom(_, _)
\* str::split_whitespace; cur is the word being read.
SplitWhitespaceFrom(s, cur) ==
    IF s = <<>> THEN (IF cur = <<>> THEN <<>> ELSE <<cur>>)
    ELSE IF Head(s) \in Whitespace
         THEN (IF cur = <<>> THEN <<>> ELSE <<cur>>) \o SplitWhitespaceFrom(Tail(s), <<>>)
         ELSE SplitWhitespaceFrom(Tail(s), Append(cur, Head(s)))

SplitWhitespace(s) == SplitWhitespaceFrom(s, <<>>)

\* A faulty filter, which drops a tag that comes again later in the text.
RECURSIVE StripHashesDeduped(_)
StripHashesDeduped(words) ==
    IF words = <<>> THEN <<>>
    ELSE (IF Head(words)[1] = "#" /\ \A k \in 2..Len(words) : words[k] # Head(words)
          THEN <<Tail(Head(words))>> ELSE <<>>)
            \o StripHashesDeduped(Tail(words))

RECURSIVE StripHashes(_)
StripHashes(words) ==
    IF words = <<>> THEN <<>>
    ELSE (IF Head(words)[1] = "#" THEN <<Tail(Head(words))>> ELSE <<>>)
            \o StripHashes(Tail(words))

\* extract_tags: the words that start with '#', without the '#'.
ExtractTags(s) == StripHashes(SplitWhitespace(s))

\* get_item_priority on the lower-cased argument.
GetItemPriority(priority) ==
    IF priority = Some("high") THEN "High"
    ELSE IF priority = Some("med") \/ priority = Some("medium") THEN "Medium"
    ELSE "Low"

(***************************************************************************)
(* Calendar dates and their formatting.                                    *)
(***************************************************************************)
Jan10 == [year |-> 2025, month |-> 1, day |-> 10]
Jan11 == [year |-> 2025, month |-> 1, day |-> 11]
Dates == {Jan10, Jan11}

DigitChar(d) == CASE d = 0 -> "0" [] d = 1 -> "1" [] d = 2 -> "2" [] d = 3 -> "3"
                  [] d = 4 -> "4" [] d = 5 -> "5" [] d = 6 -> "6" [] d = 7 -> "7"
                  [] d = 8 -> "8" [] d = 9 -> "9"

RECURSIVE ZeroPad(_, _)
\* format!("{:0w}", n) for 0 <= n < 10^w
ZeroPad(n, w) ==
    IF w = 0 THEN <<>> ELSE Append(ZeroPad(n \div 10, w - 1), DigitChar(n % 10))

\* NaiveDate's Display: YYYY-MM-DD
FormatDate(date) ==
    ZeroPad(date.year, 4) \o <<"-">> \o ZeroPad(date.month, 2) \o <<"-">>
        \o ZeroPad(date.day, 2)

RECURSIVE StrOf(_)
\* The characters of s as one string (a path component).
StrOf(s) == IF s = <<>> THEN "" ELSE Head(s) \o StrOf(Tail(s))

(***************************************************************************)
(* Path resolver.                                                          *)
(***************************************************************************)
\* char::to_ascii_lowercase on the letters the model's inputs use
AsciiLower(c) == CASE c = "W" -> "w" [] c = "K" -> "k" [] c = "T" -> "t" [] OTHER -> c
IsVaultChar(c) == c \in {"w", "k", "W", "K", "0", "1", "-", "_"}

RECURSIVE FilterVaultChars(_)
FilterVaultChars(s) ==
    IF s = <<>> THEN <<>>
    ELSE IF IsVaultChar(Head(s)) THEN <<Head(s)>> \o FilterVaultChars(Tail(s))
         ELSE FilterVaultChars(Tail(s))

RECURSIVE MapLower(_)
MapLower(s) == IF s = <<>> THEN <<>> ELSE <<AsciiLower(Head(s))>> \o MapLower(Tail(s))

\* normalise_or_default
OrDefault(filtered) ==
    IF filtered = <<>> THEN <<"d", "e", "f", "a", "u", "l", "t">> ELSE filtered
NormaliseOrDefault(vault) ==
    IF ~vault.some THEN <<"d", "e", "f", "a", "u", "l", "t">>
    ELSE OrDefault(MapLower(FilterVaultChars(Trim(vault.val))))

\* tusk_data_root; project_dirs is what ProjectDirs::from returns:
\* Some(data dir) or None.
TuskDataRoot(vault, project_dirs) ==
    IF ~project_dirs.some THEN Err("NotFound")
    ELSE Ok(project_dirs.val \o <<"vaults", StrOf(NormaliseOrDefault(vault))>>)

\* The three push calls of resolve_day_file_path.
DayFileUnder(working_dir, date) ==
    working_dir \o <<StrOf(ZeroPad(date.year, 4)), StrOf(ZeroPad(date.month, 2)),
                     StrOf(FormatDate(date)) \o ".json">>

\* base_dir.map(..).unwrap_or(tusk_data_root(vault)?): the argument of
\* unwrap_or is evaluated before unwrap_or is called, so tusk_data_root runs
\* (and its error propagates) whether or not base_dir is given.
WorkingDir(base_dir, root) ==
    IF ~root.ok THEN root
    ELSE Ok(IF base_dir.some THEN base_dir.val ELSE root.val)

\* resolve_day_file_path
ResolvedUnder(working_dir, date) ==
    IF ~working_dir.ok THEN working_dir ELSE Ok(DayFileUnder(working_dir.val, date))
ResolveDayFilePath(date, base_dir, vault, project_dirs) ==
    ResolvedUnder(WorkingDir(base_dir, TuskDataRoot(vault, project_dirs)), date)

(***************************************************************************)
(* Items and day-files in memory.                                          *)
(***************************************************************************)
\* Item::new (id is what nanoid!(6) returns, now what Utc::now() returns)
ItemNew(id, text, priority, tags, notes, now) ==
    [id |-> id, text |-> text, created_at |-> now, done_at |-> None,
     priority |-> priority, tags |-> tags, due |-> None, notes |-> notes,
     migrated_from |-> None]

\* DayFile { date, items }
DayFile(date, items) == [date |-> date, items |-> items]

(***************************************************************************)
(* The on-disk JSON document (serde_json) and its parsing.                 *)
(***************************************************************************)
JNull == [t |-> "null"]
JStr(s) == [t |-> "string", v |-> s]

DigitVal(c) == CASE c = "0" -> 0 [] c = "1" -> 1 [] c = "2" -> 2 [] c = "3" -> 3
                 [] c = "4" -> 4 [] c = "5" -> 5 [] c = "6" -> 6 [] c = "7" -> 7
                 [] c = "8" -> 8 [] c = "9" -> 9

RECURSIVE ParseNat(_)
ParseNat(s) == IF s = <<>> THEN 0 ELSE ParseNat(SubSeq(s, 1, Len(s) - 1)) * 10 + DigitVal(s[Len(s)])

\* NaiveDate's Deserialize: YYYY-MM-DD
ParseDate(s) ==
    [year |-> ParseNat(SubSeq(s, 1, 4)), month |-> ParseNat(SubSeq(s, 6, 7)),
     day |-> ParseNat(SubSeq(s, 9, 10))]

\* DateTime<Utc> as an RFC 3339 string; an instant is a number of seconds.
FormatInstant(n) == <<"T">> \o ZeroPad(n, 2) \o <<"Z">>
ParseInstant(s) == ParseNat(SubSeq(s, 2, Len(s) - 1))

\* #[serde(rename_all = "lowercase")] on ItemPriority
PriorityToJson(p) ==
    CASE p = "High" -> JStr(<<"h", "i", "g", "h">>)
      [] p = "Medium" -> JStr(<<"m", "e", "d", "i", "u", "m">>)
      [] p = "Low" -> JStr(<<"l", "o", "w">>)
PriorityFromJson(j) ==
    CASE j = JStr(<<"h", "i", "g", "h">>) -> "High"
      [] j = JStr(<<"m", "e", "d", "i", "u", "m">>) -> "Medium"
      [] j = JStr(<<"l", "o", "w">>) -> "Low"

ItemToJson(i) ==
    [id |-> JStr(i.id), text |-> JStr(i.text),
     created_at |-> JStr(FormatInstant(i.created_at)),
     done_at |-> IF i.done_at.some THEN JStr(FormatInstant(i.done_at.val)) ELSE JNull,
     priority |-> PriorityToJson(i.priority),
     tags |-> [k \in 1..Len(i.tags) |-> JStr(i.tags[k])],
     due |-> IF i.due.some THEN JStr(FormatInstant(i.due.val)) ELSE JNull,
     notes |-> IF i.notes.some THEN JStr(i.notes.val) ELSE JNull,
     migrated_from |-> IF i.migrated_from.some
                       THEN JStr(FormatDate(i.migrated_from.val)) ELSE JNull]

ItemFromJson(j) ==
    [id |-> j.id.v, text |-> j.text.v,
     created_at |-> ParseInstant(j.created_at.v),
     done_at |-> IF j.done_at = JNull THEN None ELSE Some(ParseInstant(j.done_at.v)),
     priority |-> PriorityFromJson(j.priority),
     tags |-> [k \in 1..Len(j.tags) |-> j.tags[k].v],
     due |-> IF j.due = JNull THEN None ELSE Some(ParseInstant(j.due.v)),
     notes |-> IF j.notes = JNull THEN None ELSE Some(j.notes.v),
     migrated_from |-> IF j.migrated_from = JNull THEN None
                       ELSE Some(ParseDate(j.migrated_from.v))]

\* serde_json::to_writer_pretty(&dayfile)
ToJson(dayfile) ==
    [date |-> JStr(FormatDate(dayfile.date)),
     items |-> [k \in 1..Len(dayfile.items) |-> ItemToJson(dayfile.items[k])]]

\* serde_json::from_reader::<DayFile>
FromJson(doc) ==
    [date |-> ParseDate(doc.date.v),
     items |-> [k \in 1..Len(doc.items) |-> ItemFromJson(doc.items[k])]]

(***************************************************************************)
(* Files.  A file holds a JSON document or bytes that do not parse (a      *)
(* write that stopped after File::create truncated the file).              *)
(***************************************************************************)
JsonFile(doc) == [kind |-> "json", doc |-> doc]
Garbage == [kind |-> "garbage"]

WriteFile(d, path, content) ==
    [p \in (DOMAIN d) \cup {path} |-> IF p = path THEN content ELSE d[p]]

LogEntry(op, path) == [op |-> op, path |-> path]

\* The outcome of a store operation: the disk after it, its result and the
\* file-system calls it made.
Outcome(d, res, log) == [disk |-> d, res |-> res, log |-> log]

(***************************************************************************)
(* Injected failures.  A command run meets at most one: fault.site names   *)
(* the call that fails, fault.file the day-file it is made for.            *)
(***************************************************************************)
Fault(site, mode, file) == [site |-> site, mode |-> mode, file |-> file]
NoFault == Fault("none", "-", "-")

\* save_dayfile.  failure: "none"; "create" (create_dir_all or File::create
\* fails, nothing is written); "write" (File::create has truncated the file
\* and the write or the flush fails).
SaveDayfile(d, path, dayfile, failure) ==
    CASE failure = "create" -> Outcome(d, Err("Io"), <<>>)
      [] failure = "write" ->
            Outcome(WriteFile(d, path, Garbage), Err("Io"), <<LogEntry("write", path)>>)
      [] OTHER ->
            Outcome(WriteFile(d, path, JsonFile(ToJson(dayfile))), Ok("unit"),
                    <<LogEntry("write", path)>>)

\* The failure a save at the given site meets: the saves are "new" (the
\* save of a newly created day-file) and "save" (the handler's own save).
SaveFailure(fault, site, file) ==
    IF fault.site = site /\ fault.file = file THEN fault.mode ELSE "none"

\* A faulty create, which returns the empty day-file without saving it.
CreatedUnsaved(dayfile, d, path, failure) == Outcome(d, Ok(dayfile), <<>>)
\* create_new_dayfile: the empty day-file is returned when its save succeeds.
Created(dayfile, d, path, failure) ==
    [SaveDayfile(d, path, dayfile, failure) EXCEPT
        !.res = IF @.ok THEN Ok(dayfile) ELSE @]

\* A faulty create, which dates every new day-file 2025-01-10.
CreateNewDayfileMisdated(d, path, date, fault, file) ==
    Created(DayFile(Jan10, <<>>), d, path, SaveFailure(fault, "new", file))
\* create_new_dayfile
CreateNewDayfile(d, path, date, fault, file) ==
    Created(DayFile(date, <<>>), d, path, SaveFailure(fault, "new", file))

\* A faulty parse, which takes a file it cannot parse for an empty day-file.
ParseFileDiscards(content) ==
    IF content.kind = "json" THEN Ok(FromJson(content.doc)) ELSE Ok(DayFile(Jan10, <<>>))
\* File::open followed by serde_json::from_reader
ParseFile(content) ==
    IF content.kind = "json" THEN Ok(FromJson(content.doc)) ELSE Err("InvalidData")

\* Prefixes the File::open call to what followed it.
AfterOpen(path, then) == [then EXCEPT !.log = <<LogEntry("open", path)>> \o @]

\* load_or_create_dayfile
LoadOrCreateDayfile(d, path, date, fault, file) ==
    AfterOpen(path,
        IF fault = Fault("open", "-", file) THEN Outcome(d, Err("Other"), <<>>)
        ELSE IF path \notin DOMAIN d THEN CreateNewDayfile(d, path, date, fault, file)
        ELSE Outcome(d, ParseFile(d[path]), <<>>))

(***************************************************************************)
(* Command handlers (main.rs).  cli holds the global options: date,        *)
(* data_dir and vault, each an Option.  env holds what a run reads from    *)
(* its environment: today (today_date), project_dirs (ProjectDirs::from),  *)
(* now (Utc::now), id (nanoid), editor (the editor run) and fault.         *)
(* A handler yields the disk after the run, the kind of its result ("ok"   *)
(* or the error's kind), the file-system calls made and what was rendered. *)
(***************************************************************************)
Ran(d, kind, log, out) == [disk |-> d, kind |-> kind, log |-> log, out |-> out]

\* validate_index
ValidateIndex(i, len) ==
    IF i = 0 \/ i > len THEN Err("InvalidInput") ELSE Ok(i - 1)

\* edit_in_editor.  editor.failure: "none", "tempfile" (the seed cannot be
\* written), "spawn" (the editor cannot be started) or "read" (the edited
\* file cannot be read); editor.status is the exit status, which the code
\* does not look at; editor.text is what the user left in the file, None
\* when the seeded text (writeln: the seed and a newline) was left as is.
EditInEditor(initial, editor) ==
    IF editor.failure # "none" THEN Err("Io")
    ELSE Ok(IF editor.text.some THEN editor.text.val ELSE initial \o <<"\n">>)

NotesTemplate == <<"#", " ", "N", "o", "t", "e", "s">>

\* current_day_context
DayContext(date, path) ==
    IF path.ok THEN Ok([date |-> date, path |-> path.val]) ELSE path
CurrentDayContext(cli, env) ==
    DayContext(IF cli.date.some THEN cli.date.val ELSE env.today,
               ResolveDayFilePath(IF cli.date.some THEN cli.date.val ELSE env.today,
                                  cli.data_dir, cli.vault, env.project_dirs))

\* The render functions write to stdout, which can fail.
Render(view, fault) ==
    IF fault.site = "render" THEN Err("Io") ELSE Ok(view)

\* The first two statements of the handlers of one day's file:
\*   let (date, path) = current_day_context(cli)?;
\*   let mut dayfile = load_or_create_dayfile(&path, date)?;
\* ok says whether both succeeded; run is the handler's outcome when not.
Loaded(path, loaded) ==
    [ok |-> loaded.res.ok, path |-> path, disk |-> loaded.disk,
     log |-> <<LogEntry("resolve", path)>> \o loaded.log,
     dayfile |-> IF loaded.res.ok THEN loaded.res.val ELSE None,
     run |-> Ran(loaded.disk, IF loaded.res.ok THEN "ok" ELSE loaded.res.kind,
                 <<LogEntry("resolve", path)>> \o loaded.log, None)]
LoadDayOf(d, ctx, env) ==
    IF ~ctx.ok
    THEN [ok |-> FALSE, run |-> Ran(d, ctx.kind, <<LogEntry("resolve", <<>>)>>, None)]
    ELSE Loaded(ctx.val.path,
                LoadOrCreateDayfile(d, ctx.val.path, ctx.val.date, env.fault, "day"))
LoadDay(d, cli, env) == LoadDayOf(d, CurrentDayContext(cli, env), env)

\* save_dayfile(&path, &dayfile)?; Ok(()) at the end of a handler.
Saved(log, saved) ==
    Ran(saved.disk, IF saved.res.ok THEN "ok" ELSE saved.res.kind, log \o saved.log, None)
SaveItems(o, items, env) ==
    Saved(o.log, SaveDayfile(o.disk, o.path, DayFile(o.dayfile.date, items),
                             SaveFailure(env.fault, "save", "day")))

\* run_add
AddShown(saved, item, shown) ==
    IF saved.kind # "ok" THEN saved
    ELSE IF ~shown.ok THEN [saved EXCEPT !.kind = shown.kind]
    ELSE [saved EXCEPT !.out = Some(item)]
AddItem(o, item, env) ==
    AddShown(SaveItems(o, Append(o.dayfile.items, item), env), item, Render(item, env.fault))
AddNotes(o, new_text, tags, priority, attach_notes, notes, env) ==
    IF ~notes.ok THEN Ran(o.disk, notes.kind, o.log, None)
    ELSE AddItem(o, ItemNew(env.id, new_text, GetItemPriority(priority), tags,
                            IF attach_notes THEN Some(notes.val) ELSE None, env.now),
                 env)
AddLoaded(o, new_text, tags, priority, attach_notes, env) ==
    IF ~o.ok THEN o.run
    ELSE AddNotes(o, new_text, tags, priority, attach_notes,
                  IF attach_notes THEN EditInEditor(NotesTemplate, env.editor)
                  ELSE Ok("unused"),
                  env)
AddSanitised(d, cli, new_text, tags, priority, attach_notes, env) ==
    IF ~new_text.ok THEN Ran(d, new_text.kind, <<>>, None)
    ELSE AddLoaded(LoadDay(d, cli, env), new_text.val, tags, priority, attach_notes, env)
RunAdd(d, cli, text, priority, attach_notes, env) ==
    AddSanitised(d, cli, SanitiseStr(text), ExtractTags(text), priority, attach_notes, env)

\* eq_ignore_ascii_case
EqIgnoreAsciiCase(a, b) == MapLower(a) = MapLower(b)

\* The closure of the retain in run_ls: the item carries every one of the tags.
HasAllTags(i, tags) ==
    \A t \in 1..Len(tags) : \E it \in 1..Len(i.tags) : EqIgnoreAsciiCase(i.tags[it], tags[t])

RECURSIVE RetainTagged(_, _)
RetainTagged(items, tags) ==
    IF items = <<>> THEN <<>>
    ELSE (IF HasAllTags(Head(items), tags) THEN <<Head(items)>> ELSE <<>>)
            \o RetainTagged(Tail(items), tags)

\* run_ls
LsShown(o, shown) ==
    IF ~shown.ok THEN Ran(o.disk, shown.kind, o.log, None)
    ELSE Ran(o.disk, "ok", o.log, Some(shown.val))
LsLoaded(o, tags, env) ==
    IF ~o.ok THEN o.run
    ELSE LsShown(o, Render(IF tags.some
                           THEN DayFile(o.dayfile.date, RetainTagged(o.dayfile.items, tags.val))
                           ELSE o.dayfile,
                           env.fault))
RunLs(d, cli, tags, env) == LsLoaded(LoadDay(d, cli, env), tags, env)

\* A faulty assignment, which stamps the current time on an item that is
\* done already.
SetDoneAtOverwrites(item, mark_done, now) ==
    [item EXCEPT !.done_at = IF mark_done THEN Some(now) ELSE None]
\* A faulty assignment, which clears the item's text as well.
SetDoneAtTouchesText(item, mark_done, now) ==
    [item EXCEPT !.done_at = IF mark_done THEN Some(now) ELSE None, !.text = <<>>]
\* The assignment to item.done_at in run_done.
SetDoneAt(item, mark_done, now) ==
    [item EXCEPT !.done_at = IF mark_done
                             THEN (IF item.done_at.some THEN item.done_at ELSE Some(now))
                             ELSE None]

\* run_done (done: mark_done = TRUE; undone: mark_done = FALSE)
DoneAt(o, pos, mark_done, env) ==
    IF ~pos.ok THEN Ran(o.disk, pos.kind, o.log, None)
    ELSE SaveItems(o, [o.dayfile.items EXCEPT ![pos.val + 1] =
                            SetDoneAt(@, mark_done, env.now)], env)
DoneLoaded(o, idx, mark_done, env) ==
    IF ~o.ok THEN o.run
    ELSE DoneAt(o, ValidateIndex(idx, Len(o.dayfile.items)), mark_done, env)
RunDone(d, cli, idx, mark_done, env) == DoneLoaded(LoadDay(d, cli, env), idx, mark_done, env)

\* run_rm
RmAt(o, pos, env) ==
    IF ~pos.ok THEN Ran(o.disk, pos.kind, o.log, None)
    ELSE SaveItems(o, VecRemove(o.dayfile.items, pos.val), env)
RmLoaded(o, idx, env) ==
    IF ~o.ok THEN o.run
    ELSE RmAt(o, ValidateIndex(idx, Len(o.dayfile.items)), env)
RunRm(d, cli, idx, env) == RmLoaded(LoadDay(d, cli, env), idx, env)

\* run_edit
EditNotes(o, k, new_text, attach_notes, notes, env) ==
    IF ~notes.ok THEN Ran(o.disk, notes.kind, o.log, None)
    ELSE SaveItems(o, [o.dayfile.items EXCEPT ![k] =
                            [@ EXCEPT !.text = new_text,
                                      !.notes = IF attach_notes THEN Some(notes.val)
                                                ELSE None]], env)
EditText(o, k, new_text, attach_notes, env) ==
    IF ~new_text.ok THEN Ran(o.disk, new_text.kind, o.log, None)
    ELSE EditNotes(o, k, new_text.val, attach_notes,
                   IF attach_notes
                   THEN EditInEditor(IF o.dayfile.items[k].notes.some
                                     THEN o.dayfile.items[k].notes.val ELSE NotesTemplate,
                                     env.editor)
                   ELSE Ok("unused"),
                   env)
EditAt(o, pos, text, attach_notes, env) ==
    IF ~pos.ok THEN Ran(o.disk, pos.kind, o.log, None)
    ELSE EditText(o, pos.val + 1,
                  IF text.some THEN SanitiseStr(text.val)
                  ELSE Ok(o.dayfile.items[pos.val + 1].text),
                  attach_notes, env)
EditLoaded(o, idx, text, attach_notes, env) ==
    IF ~o.ok THEN o.run
    ELSE EditAt(o, ValidateIndex(idx, Len(o.dayfile.items)), text, attach_notes, env)
RunEdit(d, cli, idx, text, attach_notes, env) ==
    EditLoaded(LoadDay(d, cli, env), idx, text, attach_notes, env)

\* run_show
ShowAt(o, pos, env) ==
    IF ~pos.ok THEN Ran(o.disk, pos.kind, o.log, None)
    ELSE LsShown(o, Render(o.dayfile.items[pos.val + 1], env.fault))
ShowLoaded(o, idx, env) ==
    IF ~o.ok THEN o.run
    ELSE ShowAt(o, ValidateIndex(idx, Len(o.dayfile.items)), env)
RunShow(d, cli, idx, env) == ShowLoaded(LoadDay(d, cli, env), idx, env)

\* A faulty retain, which leaves every item in the source.
RetainDoneKeepsAll(items) == items

RECURSIVE RetainDone(_)
\* What retain_mut leaves in from_dayfile.items: the items with done_at set.
RetainDone(items) ==
    IF items = <<>> THEN <<>>
    ELSE (IF Head(items).done_at.some THEN <<Head(items)>> ELSE <<>>)
            \o RetainDone(Tail(items))

\* A faulty partition, which moves the open items without stamping them.
RECURSIVE ItemsToMoveUnstamped(_, _)
ItemsToMoveUnstamped(items, from_date) ==
    IF items = <<>> THEN <<>>
    ELSE (IF Head(items).done_at.some THEN <<>> ELSE <<Head(items)>>)
            \o ItemsToMoveUnstamped(Tail(items), from_date)

\* A faulty partition, which stamps only the items that carry no stamp yet.
RECURSIVE ItemsToMoveKeepsStamp(_, _)
ItemsToMoveKeepsStamp(items, from_date) ==
    IF items = <<>> THEN <<>>
    ELSE (IF Head(items).done_at.some THEN <<>>
          ELSE <<[Head(items) EXCEPT
                    !.migrated_from = IF @.some THEN @ ELSE Some(from_date)]>>)
            \o ItemsToMoveKeepsStamp(Tail(items), from_date)

RECURSIVE ItemsToMove(_, _)
\* What retain_mut pushes to items_to_move: the items with done_at unset,
\* each stamped with migrated_from = from_date.
ItemsToMove(items, from_date) ==
    IF items = <<>> THEN <<>>
    ELSE (IF Head(items).done_at.some THEN <<>>
          ELSE <<[Head(items) EXCEPT !.migrated_from = Some(from_date)]>>)
            \o ItemsToMove(Tail(items), from_date)

\* A faulty comparison, which lets equal dates through.
SameDatesNever(from_date, to_date) == FALSE
\* if from_date == to_date { return Err(InvalidInput) }
SameDates(from_date, to_date) == from_date = to_date

\* if !*dry_run { save_dayfile(..)? }
SaveUnlessDryRun(d, path, dayfile, dry_run, failure) ==
    IF dry_run THEN Outcome(d, Ok("unit"), <<>>)
    ELSE SaveDayfile(d, path, dayfile, failure)

\* A faulty append, which puts the moved items in front.
AppendMovedInFront(to_items, items_to_move) == items_to_move \o to_items
\* to_dayfile.items.append(&mut items_to_move)
AppendMoved(to_items, items_to_move) == to_items \o items_to_move

\* run_migrate, from the last statement back to the first.
MigrateToSaved(log, to_dayfile, to_saved) ==
    Ran(to_saved.disk, IF to_saved.res.ok THEN "ok" ELSE to_saved.res.kind,
        log \o to_saved.log, Some(to_dayfile))
MigrateShown(d, log, to_path, to_dayfile, shown, dry_run, env) ==
    IF ~shown.ok THEN Ran(d, shown.kind, log, None)
    ELSE MigrateToSaved(log, to_dayfile,
                        SaveUnlessDryRun(d, to_path, to_dayfile, dry_run,
                                         SaveFailure(env.fault, "save", "to")))
MigrateAppend(d, log, to_path, to_dayfile, dry_run, env) ==
    MigrateShown(d, log, to_path, to_dayfile, Render(to_dayfile, env.fault), dry_run, env)
MigrateToLoaded(log, to_path, to_loaded, items_to_move, dry_run, env) ==
    IF ~to_loaded.res.ok
    THEN Ran(to_loaded.disk, to_loaded.res.kind, log \o to_loaded.log, None)
    ELSE MigrateAppend(to_loaded.disk, log \o to_loaded.log, to_path,
                       DayFile(to_loaded.res.val.date,
                               AppendMoved(to_loaded.res.val.items, items_to_move)),
                       dry_run, env)
MigrateToResolved(d, log, to_path, to_date, items_to_move, dry_run, env) ==
    IF ~to_path.ok THEN Ran(d, to_path.kind, log \o <<LogEntry("resolve", <<>>)>>, None)
    ELSE MigrateToLoaded(log \o <<LogEntry("resolve", to_path.val)>>, to_path.val,
                         LoadOrCreateDayfile(d, to_path.val, to_date, env.fault, "to"),
                         items_to_move, dry_run, env)
MigrateFromSaved(cli, log, from_saved, to_date, items_to_move, dry_run, env) ==
    IF ~from_saved.res.ok
    THEN Ran(from_saved.disk, from_saved.res.kind, log \o from_saved.log, None)
    ELSE MigrateToResolved(from_saved.disk, log \o from_saved.log,
                           ResolveDayFilePath(to_date, cli.data_dir, cli.vault,
                                              env.project_dirs),
                           to_date, items_to_move, dry_run, env)
MigrateFromLoaded(cli, log, from_path, from_loaded, from_date, to_date, dry_run, env) ==
    IF ~from_loaded.res.ok
    THEN Ran(from_loaded.disk, from_loaded.res.kind, log \o from_loaded.log, None)
    ELSE MigrateFromSaved(cli, log \o from_loaded.log,
                          SaveUnlessDryRun(from_loaded.disk, from_path,
                                           DayFile(from_loaded.res.val.date,
                                                   RetainDone(from_loaded.res.val.items)),
                                           dry_run, SaveFailure(env.fault, "save", "from")),
                          to_date,
                          ItemsToMove(from_loaded.res.val.items, from_date),
                          dry_run, env)
MigrateFromResolved(d, cli, from_path, from_date, to_date, dry_run, env) ==
    IF ~from_path.ok THEN Ran(d, from_path.kind, <<LogEntry("resolve", <<>>)>>, None)
    ELSE MigrateFromLoaded(cli, <<LogEntry("resolve", from_path.val)>>, from_path.val,
                           LoadOrCreateDayfile(d, from_path.val, from_date, env.fault, "from"),
                           from_date, to_date, dry_run, env)
MigrateDates(d, cli, from_date, to_date, dry_run, env) ==
    IF SameDates(from_date, to_date) THEN Ran(d, "InvalidInput", <<>>, None)
    ELSE MigrateFromResolved(d, cli,
                             ResolveDayFilePath(from_date, cli.data_dir, cli.vault,
                                                env.project_dirs),
                             from_date, to_date, dry_run, env)
RunMigrate(d, cli, from_arg, to_arg, dry_run, env) ==
    MigrateDates(d, cli,
                 IF from_arg.some THEN from_arg.val ELSE env.today,
                 IF to_arg.some THEN to_arg.val ELSE env.today,
                 dry_run, env)

(***************************************************************************)
(* The state machine: one action per command run.                          *)
(***************************************************************************)
VARIABLES
    disk,       \* the day-files on disk: path -> file content
    today,      \* the local calendar date (today_date)
    clock,      \* the instant Utc::now() returns
    adds,       \* number of add runs so far
    last,       \* the command run that has just ended: its arguments, the disk
                \* before it and its outcome; NoRun between runs
    running     \* two invocations of add that run side by side: where each
                \* one is in run_add and what it holds in memory, and the
                \* order of their steps so far

vars == <<disk, today, clock, adds, last, running>>

\* What a run can read from its environment.
PlatformDataDir == <<"home", "tusk">>
NoEditor == [failure |-> "none", status |-> 0, text |-> None]
EditorRuns ==
    { [failure |-> "none", status |-> 0, text |-> Some(<<"n">>)],
      [failure |-> "none", status |-> 1, text |-> Some(<<"n">>)],
      [failure |-> "spawn", status |-> 0, text |-> None],
      [failure |-> "read", status |-> 0, text |-> None] }

\* The surroundings of a run that may start the editor.
WithEditor(s, ed) == [fault |-> s.fault, project_dirs |-> s.project_dirs, editor |-> ed]

\* nanoid!(6): the k-th identifier drawn.  Identifiers are 6 random symbols
\* of a 64-symbol alphabet; the model takes the draws to be distinct.
NanoId(k) == <<"i", "d", DigitChar(k)>>

DayFaults ==
    { Fault("render", "-", "-"), Fault("open", "-", "day") }
    \cup { Fault(s, m, "day") : s \in {"new", "save"}, m \in {"create", "write"} }
MigrateFaults ==
    { Fault("render", "-", "-") }
    \cup { Fault("open", "-", f) : f \in {"from", "to"} }
    \cup { Fault(s, m, f) : s \in {"new", "save"}, m \in {"create", "write"},
                            f \in {"from", "to"} }

\* The global options of a run.
Clis == { [date |-> dt, data_dir |-> None, vault |-> None] :
            dt \in {None, Some(Jan10)} }

\* The surroundings of a run: the platform data directory is known and no
\* call fails, or one call fails, or the platform data directory is unknown.
Surroundings(faults) ==
    { [fault |-> f, project_dirs |-> Some(PlatformDataDir)] : f \in faults \cup {NoFault} }
    \cup { [fault |-> NoFault, project_dirs |-> None] }
Calm(s) == s.fault = NoFault /\ s.project_dirs.some

Env(s, editor) ==
    [today |-> today, project_dirs |-> s.project_dirs, now |-> clock,
     id |-> NanoId(adds + 1), editor |-> editor, fault |-> s.fault]

Record(cmd, cli, args, s, ran) ==
    [cmd |-> cmd, cli |-> cli, args |-> args, met |-> s, today |-> today, pre |-> disk,
     kind |-> ran.kind, log |-> ran.log, out |-> ran.out]
NoRun ==
    [cmd |-> "none", cli |-> None, args |-> None, met |-> None, today |-> None,
     pre |-> <<>>, kind |-> "ok", log |-> <<>>, out |-> None]
Idle == last = NoRun

\* A run ends: the disk is as the run left it and its outcome is reported.
Ends(cmd, cli, args, s, ran) ==
    /\ disk' = ran.disk
    /\ last' = Record(cmd, cli, args, s, ran)

\* The two invocations that can run side by side; neither has started.
Procs == {1, 2}
NoneRunning == [procs |-> [i \in Procs |-> [pc |-> "start"]], steps |-> <<>>]

Init ==
    /\ running = NoneRunning
    /\ disk = <<>>
    /\ today = Jan11
    /\ clock = 0
    /\ adds = 0
    /\ last = NoRun

\* The run has reported its outcome and exited; the next one can start.
Return ==
    /\ ~Idle
    /\ last' = NoRun
    /\ UNCHANGED <<running, disk, today, clock, adds>>

\* Time passes between runs.
Tick ==
    /\ Idle
    /\ clock < MaxClock
    /\ clock' = clock + 1
    /\ UNCHANGED <<running, disk, today, adds, last>>

\* A day-file is damaged from outside the program (edited by hand, cut
\* short by a crash): it no longer parses.
Damage ==
    /\ Idle
    /\ \E p \in DOMAIN disk :
        /\ disk[p].kind = "json"
        /\ disk' = WriteFile(disk, p, Garbage)
    /\ UNCHANGED <<running, today, clock, adds, last>>

AddArgs ==
    { [text |-> <<" ">>, priority |-> None, attach_notes |-> FALSE],
      [text |-> <<" ", "#", "t", " ", "b", " ", "#", "u", " ", "#", "t">>, priority |-> Some("high"),
       attach_notes |-> FALSE],
      [text |-> <<" ", "#", "t", " ", "b", " ", "#", "u", " ", "#", "t">>, priority |-> Some("high"),
       attach_notes |-> TRUE] }

\* A run of add in which nanoid!(6) returns one of ids.
AddDrawing(faults, ids) ==
    /\ Idle
    /\ adds < MaxAdds
    /\ \E cli \in Clis, a \in AddArgs, s \in Surroundings(faults), ed \in EditorRuns,
          id \in ids :
        /\ Calm(s) \/ (~cli.date.some /\ ~a.attach_notes /\ Trim(a.text) # <<>>)
        /\ a.attach_notes \/ (ed.failure = "none" /\ ed.status = 0)
        /\ Ends("add", cli, a, WithEditor(s, ed),
                RunAdd(disk, cli, a.text, a.priority, a.attach_notes,
                       [Env(s, ed) EXCEPT !.id = id]))
    /\ adds' = adds + 1
    /\ UNCHANGED <<running, today, clock>>

\* The runs of add in which the identifier drawn is a new one.
AddWith(faults) == AddDrawing(faults, {NanoId(adds + 1)})

LsWith(faults) ==
    /\ Idle
    /\ \E cli \in Clis, tags \in {None, Some(<<<<"T">>>>)}, s \in Surroundings(faults) :
        /\ Calm(s) \/ (~cli.date.some /\ ~tags.some)
        /\ Ends("ls", cli, [tags |-> tags], s,
                RunLs(disk, cli, tags, Env(s, NoEditor)))
    /\ UNCHANGED <<running, today, clock, adds>>

Positions == 0 .. (MaxAdds + 1)

DoneWith(faults) ==
    /\ Idle
    /\ \E cli \in Clis, idx \in Positions, s \in Surroundings(faults) :
        /\ Calm(s) \/ (~cli.date.some /\ idx = 1)
        /\ Ends("done", cli, [index |-> idx], s,
                RunDone(disk, cli, idx, TRUE, Env(s, NoEditor)))
    /\ UNCHANGED <<running, today, clock, adds>>

UndoneWith(faults) ==
    /\ Idle
    /\ \E cli \in Clis, idx \in Positions, s \in Surroundings(faults) :
        /\ Calm(s) \/ (~cli.date.some /\ idx = 1)
        /\ Ends("undone", cli, [index |-> idx], s,
                RunDone(disk, cli, idx, FALSE, Env(s, NoEditor)))
    /\ UNCHANGED <<running, today, clock, adds>>

RmWith(faults) ==
    /\ Idle
    /\ \E cli \in Clis, idx \in Positions, s \in Surroundings(faults) :
        /\ Calm(s) \/ (~cli.date.some /\ idx = 1)
        /\ Ends("rm", cli, [index |-> idx], s,
                RunRm(disk, cli, idx, Env(s, NoEditor)))
    /\ UNCHANGED <<running, today, clock, adds>>

EditArgs ==
    { [text |-> Some(<<" ">>), attach_notes |-> FALSE],
      [text |-> Some(<<"a", " ">>), attach_notes |-> FALSE],
      [text |-> None, attach_notes |-> TRUE] }

EditWith(faults) ==
    /\ Idle
    /\ \E cli \in Clis, idx \in Positions, a \in EditArgs, s \in Surroundings(faults),
          ed \in EditorRuns :
        /\ Calm(s) \/ (~cli.date.some /\ idx = 1 /\ a.text = Some(<<"a", " ">>))
        /\ a.attach_notes \/ (ed.failure = "none" /\ ed.status = 0)
        /\ Ends("edit", cli, [index |-> idx, text |-> a.text, attach_notes |-> a.attach_notes],
                WithEditor(s, ed),
                RunEdit(disk, cli, idx, a.text, a.attach_notes, Env(s, ed)))
    /\ UNCHANGED <<running, today, clock, adds>>

ShowWith(faults) ==
    /\ Idle
    /\ \E cli \in Clis, idx \in Positions, s \in Surroundings(faults) :
        /\ Calm(s) \/ (~cli.date.some /\ idx = 1)
        /\ Ends("show", cli, [index |-> idx], s,
                RunShow(disk, cli, idx, Env(s, NoEditor)))
    /\ UNCHANGED <<running, today, clock, adds>>

MigrateArgs ==
    { [from |-> f, to |-> t] :
        f \in {None, Some(Jan10)}, t \in {None, Some(Jan10), Some(Jan11)} }

MigrateWith(faults) ==
    /\ Idle
    /\ \E cli \in Clis, a \in MigrateArgs, dry_run \in BOOLEAN, s \in Surroundings(faults) :
        /\ ~cli.date.some
        /\ Calm(s) \/ (a.from.some /\ ~a.to.some)
        /\ Ends("migrate", cli, [from |-> a.from, to |-> a.to, dry_run |-> dry_run], s,
                RunMigrate(disk, cli, a.from, a.to, dry_run, Env(s, NoEditor)))
    /\ UNCHANGED <<running, today, clock, adds>>

\* The runs in which a call can fail.
Add == AddWith(DayFaults)
Ls == LsWith(DayFaults)
Done == DoneWith(DayFaults)
Undone == UndoneWith(DayFaults)
Rm == RmWith(DayFaults)
Edit == EditWith(DayFaults)
Show == ShowWith(DayFaults)
Migrate == MigrateWith(MigrateFaults)

\* The runs in which no call fails.
CalmAdd == AddWith({})
CalmLs == LsWith({})
CalmDone == DoneWith({})
CalmUndone == UndoneWith({})
CalmRm == RmWith({})
CalmEdit == EditWith({})
CalmShow == ShowWith({})
CalmMigrate == MigrateWith({})

\* Every command, with failing calls and damaged files, within one clock
\* instant.
Next ==
    \/ Return \/ Damage
    \/ Add \/ Ls \/ Done \/ Undone \/ Rm \/ Edit \/ Show \/ Migrate

Spec == Init /\ [][Next]_vars

\* The commands on the day's own file, with time passing between the runs.
NextDay ==
    \/ Return \/ Tick
    \/ Add \/ Ls \/ Done \/ Undone \/ Rm \/ Edit \/ Show

SpecDay == Init /\ [][NextDay]_vars

\* Every command, in runs where no call fails.
NextCalm ==
    \/ Return \/ Damage
    \/ CalmAdd \/ CalmLs \/ CalmDone \/ CalmUndone \/ CalmRm \/ CalmEdit \/ CalmShow
    \/ CalmMigrate

SpecCalm == Init /\ [][NextCalm]_vars

\* The commands that write items, in runs where no call fails and nanoid!(6)
\* returns any identifier, one it has returned before included.
AnyIdAdd == AddDrawing({}, {NanoId(n) : n \in 1..MaxAdds})

NextIds ==
    \/ Return
    \/ AnyIdAdd \/ CalmDone \/ CalmUndone \/ CalmRm \/ CalmEdit \/ CalmMigrate

SpecIds == Init /\ [][NextIds]_vars

\* Two invocations of add side by side.  Each is two steps, with the other
\* invocation free to take steps in between: the load (main.rs 162-166), and
\* the push and the save (main.rs 174-181) of the day-file it holds in memory
\* since its load.  No call fails, and the identifiers drawn are distinct.
RaceEnv(i) == [Env([fault |-> NoFault, project_dirs |-> Some(PlatformDataDir)], NoEditor)
                  EXCEPT !.id = NanoId(i)]
RaceTexts == { <<"a">>, <<"b", " ", "#", "t">> }

\* A faulty resumption, which reads the day-file again before the push.
ResumedReloading(o, d) ==
    [o EXCEPT !.disk = d,
              !.dayfile = IF o.path \in DOMAIN d /\ d[o.path].kind = "json"
                          THEN FromJson(d[o.path].doc) ELSE @]
\* What an invocation that has loaded its day-file goes on with: the
\* day-file in its memory, and the disk as it is now.
Resumed(o, d) == [o EXCEPT !.disk = d]

Steps(i, step, proc, d) ==
    /\ running' = [procs |-> [running.procs EXCEPT ![i] = proc],
                   steps |-> Append(running.steps, <<i, step>>)]
    /\ disk' = d

AddLoadsAs(i, cli, text, o) ==
    Steps(i, "load", [pc |-> IF o.ok THEN "loaded" ELSE "exited", cli |-> cli,
                      text |-> text, o |-> o, kind |-> o.run.kind],
          o.run.disk)
AddLoads(i) ==
    /\ Idle
    /\ running.procs[i].pc = "start"
    /\ \E cli \in Clis, text \in RaceTexts :
          AddLoadsAs(i, cli, text, LoadDay(disk, cli, RaceEnv(i)))
    /\ UNCHANGED <<today, clock, adds, last>>

AddSavesAs(i, ran) ==
    Steps(i, "save", [running.procs[i] EXCEPT !.pc = "exited", !.kind = ran.kind], ran.disk)
AddSaves(i) ==
    /\ running.procs[i].pc = "loaded"
    /\ AddSavesAs(i, AddLoaded(Resumed(running.procs[i].o, disk),
                               SanitiseStr(running.procs[i].text).val,
                               ExtractTags(running.procs[i].text), None, FALSE,
                               RaceEnv(i)))
    /\ UNCHANGED <<today, clock, adds, last>>

NextRace == \E i \in Procs : AddLoads(i) \/ AddSaves(i)

SpecRace == Init /\ [][NextRace]_vars

\* The path resolver on its own: current_day_context for a wider range of
\* options than the command runs above take.  A vault name is any text of at
\* most MaxVaultLen of these characters.
Mar5 == [year |-> 987, month |-> 3, day |-> 5]
VaultChars == {"W", "k", " ", "/"}
VaultNames == UNION { [1..n -> VaultChars] : n \in 0..MaxVaultLen }
PathClis ==
    { [date |-> dt, data_dir |-> dir, vault |-> v] :
        dt \in {None, Some(Jan10), Some(Mar5)},
        dir \in {None, Some(<<"d">>)},
        v \in {None} \cup {Some(n) : n \in VaultNames} }

Context(ctx) ==
    Ran(disk, IF ctx.ok THEN "ok" ELSE ctx.kind, <<>>, IF ctx.ok THEN Some(ctx.val) ELSE None)
ResolveContext ==
    /\ Idle
    /\ \E cli \in PathClis, s \in Surroundings({}) :
        Ends("context", cli, None, s, Context(CurrentDayContext(cli, Env(s, NoEditor))))
    /\ UNCHANGED <<running, today, clock, adds>>

NextPath == Return \/ ResolveContext

SpecPath == Init /\ [][NextPath]_vars

(***************************************************************************)
(* Vocabulary of the properties.  They speak of the run that has just      *)
(* ended (last), of the disk before it (last.pre) and of the disk after it *)
(* (disk).                                                                 *)
(***************************************************************************)
Ran1(cmd) == last.cmd = cmd
DayCommands == {"add", "ls", "done", "undone", "rm", "edit", "show"}

\* The path the last run's options give a date when the platform data
\* directory is known.
PathOn(date) ==
    ResolveDayFilePath(date, last.cli.data_dir, last.cli.vault, Some(PlatformDataDir)).val

\* The date a run on one day's file addresses, and the dates of a migrate.
RunDate == IF last.cli.date.some THEN last.cli.date.val ELSE last.today
FromDate == IF last.args.from.some THEN last.args.from.val ELSE last.today
ToDate == IF last.args.to.some THEN last.args.to.val ELSE last.today

Exists(d, p) == p \in DOMAIN d
Parses(d, p) == p \in DOMAIN d /\ d[p].kind = "json"
Unparseable(d, p) == p \in DOMAIN d /\ d[p].kind # "json"
ItemsOf(d, p) == IF Parses(d, p) THEN FromJson(d[p].doc).items ELSE <<>>
Content(d, p) == IF p \in DOMAIN d THEN Some(d[p]) ELSE None

IsDone(i) == i.done_at.some
IsOpen(i) == ~i.done_at.some
StampedWith(items, date) ==
    [k \in 1..Len(items) |-> [items[k] EXCEPT !.migrated_from = Some(date)]]

Writes(log) == {k \in 1..Len(log) : log[k].op = "write"}

\* Number of day-files on disk d that hold an item with this id, counting a
\* file once for each position that holds it.
Copies(d, id) ==
    Cardinality({<<p, k>> \in (DOMAIN d) \X (1..MaxAdds) :
                    k <= Len(ItemsOf(d, p)) /\ ItemsOf(d, p)[k].id = id})
IdsOn(d) == {NanoId(n) : n \in 1..MaxAdds}

(***************************************************************************)
(* C1.  After a commit migrate from F to T that ends without error, F      *)
(* holds exactly its former items that are done, in their order, and T     *)
(* holds its former items followed by F's former open items, in their      *)
(* order, each with migrated_from = F.                                     *)
(***************************************************************************)
C1_CommitPartitions ==
    (Ran1("migrate") /\ ~last.args.dry_run /\ last.kind = "ok") =>
        /\ FromDate # ToDate
        /\ Parses(disk, PathOn(FromDate)) /\ Parses(disk, PathOn(ToDate))
        /\ ItemsOf(disk, PathOn(FromDate))
             = SelectSeq(ItemsOf(last.pre, PathOn(FromDate)), IsDone)
        /\ ItemsOf(disk, PathOn(ToDate))
             = ItemsOf(last.pre, PathOn(ToDate))
                 \o StampedWith(SelectSeq(ItemsOf(last.pre, PathOn(FromDate)), IsOpen),
                                FromDate)

\* A commit migrate of a day with one done and one open item has ended.
C1_Witness ==
    /\ Ran1("migrate") /\ ~last.args.dry_run /\ last.kind = "ok"
    /\ Len(ItemsOf(last.pre, PathOn(FromDate))) = 2
    /\ Len(ItemsOf(disk, PathOn(FromDate))) = 1
    /\ Len(ItemsOf(disk, PathOn(ToDate))) = 1

(***************************************************************************)
(* C2.  A run that meets no I/O failure leaves every item that was in      *)
(* exactly one day-file in exactly one day-file, unless it is the item rm  *)
(* removed; and the item a successful add created is in exactly one.       *)
(***************************************************************************)
C2_EveryItemInOneFile ==
    (last.cmd # "none" /\ last.kind \notin {"Io", "Other"}) =>
        /\ \A id \in IdsOn(last.pre) :
              Copies(last.pre, id) = 1 =>
                 \/ Copies(disk, id) = 1
                 \/ /\ Ran1("rm") /\ last.kind = "ok"
                    /\ ItemsOf(last.pre, PathOn(RunDate))[last.args.index].id = id
                    /\ Copies(disk, id) = 0
        /\ (Ran1("add") /\ last.kind = "ok") => Copies(disk, last.out.val.id) = 1

(***************************************************************************)
(* C3.  A dry-run migrate leaves the disk exactly as it was, whatever the  *)
(* prior state of the two paths.                                           *)
(***************************************************************************)
C3_DryRunLeavesDisk ==
    (Ran1("migrate") /\ last.args.dry_run) => disk = last.pre

(***************************************************************************)
(* C4.  The destination day-file a dry-run migrate reports is the one a    *)
(* commit migrate of the same disk persists: the destination's items       *)
(* followed by the source's open items stamped with the source date.       *)
(***************************************************************************)
CommitOf ==
    RunMigrate(last.pre, last.cli, last.args.from, last.args.to, FALSE,
               [today |-> last.today, project_dirs |-> last.met.project_dirs, now |-> 0,
                id |-> <<>>, editor |-> NoEditor, fault |-> NoFault])

C4_PreviewIsWhatCommitPersists ==
    (Ran1("migrate") /\ last.args.dry_run /\ last.kind = "ok") =>
        /\ last.out.some
        /\ CommitOf.kind = "ok"
        /\ Parses(CommitOf.disk, PathOn(ToDate))
        /\ last.out.val = FromJson(CommitOf.disk[PathOn(ToDate)].doc)
        /\ last.out.val.date = ToDate
        /\ last.out.val.items
             = ItemsOf(last.pre, PathOn(ToDate))
                 \o StampedWith(SelectSeq(ItemsOf(last.pre, PathOn(FromDate)), IsOpen),
                                FromDate)

\* A dry run has reported a destination that had an item and gets another.
C4_Witness ==
    /\ Ran1("migrate") /\ last.args.dry_run /\ last.kind = "ok"
    /\ Len(ItemsOf(last.pre, PathOn(ToDate))) = 1
    /\ Len(last.out.val.items) = 2

(***************************************************************************)
(* C5.  A migrate whose from and to dates are equal is rejected as a user  *)
(* input error before any path is resolved and before any file is opened   *)
(* or written.                                                             *)
(***************************************************************************)
C5_SameDatesRejectedFirst ==
    (Ran1("migrate") /\ FromDate = ToDate) =>
        /\ last.kind = "InvalidInput"
        /\ last.log = <<>>
        /\ disk = last.pre

\* A migrate with neither --from nor --to (both default to today) has ended.
C5_Witness ==
    /\ Ran1("migrate") /\ ~last.args.from.some /\ ~last.args.to.some
    /\ last.kind = "InvalidInput"

(***************************************************************************)
(* C6.  A run rejected for a user-input error changes nothing on disk: no  *)
(* day-file is created and none changes.                                   *)
(***************************************************************************)
C6_RejectedRunChangesNothing ==
    (last.cmd # "none" /\ last.kind = "InvalidInput") => disk = last.pre

(***************************************************************************)
(* C7.  When a day-file does not parse, a run that targets it fails and    *)
(* leaves the file's content as it was.  As claimed: it always fails with  *)
(* a data-corruption error.  As amended: it fails with a data-corruption   *)
(* error when it gets to read the file, and with the error that stopped it *)
(* when it is rejected before that.                                        *)
(***************************************************************************)
Targets ==
    IF Ran1("migrate") THEN {[path |-> PathOn(FromDate), file |-> "from"],
                             [path |-> PathOn(ToDate), file |-> "to"]}
    ELSE IF last.cmd \in DayCommands THEN {[path |-> PathOn(RunDate), file |-> "day"]}
    ELSE {}

\* The run opened the file and the open itself did not fail.
Read(t) ==
    /\ \E k \in 1..Len(last.log) : last.log[k] = LogEntry("open", t.path)
    /\ last.met.fault # Fault("open", "-", t.file)

C7_AlwaysDataCorruptionError ==
    \A t \in Targets :
        (Unparseable(last.pre, t.path) /\ last.met.project_dirs.some) =>
            /\ last.kind = "InvalidData"
            /\ Content(disk, t.path) = Content(last.pre, t.path)

C7_UnparseableFileIsKept ==
    \A t \in Targets :
        Unparseable(last.pre, t.path) =>
            /\ last.kind \in {"InvalidData", "InvalidInput", "NotFound", "Io", "Other"}
            /\ Read(t) => last.kind = "InvalidData"
            /\ (last.kind = "InvalidData" /\ ~Ran1("migrate")) => Read(t)
            /\ Content(disk, t.path) = Content(last.pre, t.path)

\* A run has read a file that does not parse.
C7_Witness ==
    \E t \in Targets :
        Unparseable(last.pre, t.path) /\ Read(t) /\ last.kind = "InvalidData"

(***************************************************************************)
(* C8.  load_or_create_dayfile, as ls calls it: for a path with no file    *)
(* the first call writes the empty day-file of the date and returns it,    *)
(* and a second call writes nothing and returns the same value; for a      *)
(* path with a file that parses it writes nothing.                         *)
(***************************************************************************)
SecondLoad == LoadOrCreateDayfile(disk, PathOn(RunDate), RunDate, NoFault, "day")

C8_LoadOrCreateIdempotent ==
    (Ran1("ls") /\ Calm(last.met) /\ ~last.args.tags.some) =>
        /\ ~Exists(last.pre, PathOn(RunDate)) =>
              /\ last.kind = "ok"
              /\ last.out = Some(DayFile(RunDate, <<>>))
              /\ Cardinality(Writes(last.log)) = 1
              /\ Parses(disk, PathOn(RunDate))
              /\ FromJson(disk[PathOn(RunDate)].doc) = DayFile(RunDate, <<>>)
              /\ \A p \in DOMAIN last.pre : Content(disk, p) = Content(last.pre, p)
              /\ SecondLoad.res = Ok(last.out.val)
              /\ SecondLoad.disk = disk
              /\ Writes(SecondLoad.log) = {}
        /\ Parses(last.pre, PathOn(RunDate)) =>
              /\ last.kind = "ok"
              /\ disk = last.pre
              /\ Writes(last.log) = {}
              /\ SecondLoad.res = Ok(last.out.val)

\* A first load of a path with no file has ended.
C8_Witness ==
    /\ Ran1("ls") /\ Calm(last.met) /\ ~last.args.tags.some
    /\ ~Exists(last.pre, PathOn(RunDate))
    /\ Exists(disk, PathOn(RunDate))

(***************************************************************************)
(* C9.  rm at a position k within the list leaves the list without its     *)
(* k-th item: the items before it stay where they are, the items after it  *)
(* move down by one, and no item changes.                                  *)
(***************************************************************************)
C9_RmDeletesTheKth ==
    (/\ Ran1("rm") /\ Calm(last.met) /\ Parses(last.pre, PathOn(RunDate))
     /\ last.args.index >= 1
     /\ last.args.index <= Len(ItemsOf(last.pre, PathOn(RunDate)))) =>
        /\ last.kind = "ok"
        /\ Parses(disk, PathOn(RunDate))
        /\ Len(ItemsOf(disk, PathOn(RunDate)))
             = Len(ItemsOf(last.pre, PathOn(RunDate))) - 1
        /\ \A j \in 1..Len(ItemsOf(disk, PathOn(RunDate))) :
              ItemsOf(disk, PathOn(RunDate))[j]
                = ItemsOf(last.pre, PathOn(RunDate))[IF j < last.args.index THEN j
                                                     ELSE j + 1]
        /\ \A p \in DOMAIN disk :
              p # PathOn(RunDate) => Content(disk, p) = Content(last.pre, p)

\* The first of two items has been removed.
C9_Witness ==
    /\ Ran1("rm") /\ last.kind = "ok" /\ last.args.index = 1
    /\ Len(ItemsOf(last.pre, PathOn(RunDate))) = 2
    /\ Len(ItemsOf(disk, PathOn(RunDate))) = 1

(***************************************************************************)
(* C10.  done and undone at a position within the list change only the     *)
(* done_at of the item at that position; at position 0 or beyond the end   *)
(* of the list (an empty list too) they fail with the out-of-range error   *)
(* and leave the items as they were.                                       *)
(***************************************************************************)
C10_DoneAddressesByPosition ==
    (/\ last.cmd \in {"done", "undone"} /\ Calm(last.met)
     /\ ~Unparseable(last.pre, PathOn(RunDate))) =>
        IF last.args.index >= 1 /\ last.args.index <= Len(ItemsOf(last.pre, PathOn(RunDate)))
        THEN /\ last.kind = "ok"
             /\ Len(ItemsOf(disk, PathOn(RunDate))) = Len(ItemsOf(last.pre, PathOn(RunDate)))
             /\ \A j \in 1..Len(ItemsOf(disk, PathOn(RunDate))) :
                   [ItemsOf(disk, PathOn(RunDate))[j] EXCEPT
                       !.done_at = IF j = last.args.index
                                   THEN ItemsOf(last.pre, PathOn(RunDate))[j].done_at
                                   ELSE @]
                     = ItemsOf(last.pre, PathOn(RunDate))[j]
             /\ IsDone(ItemsOf(disk, PathOn(RunDate))[last.args.index]) = Ran1("done")
        ELSE /\ last.kind = "InvalidInput"
             /\ ItemsOf(disk, PathOn(RunDate)) = ItemsOf(last.pre, PathOn(RunDate))

\* The second of two items has been marked done.
C10_Witness ==
    /\ Ran1("done") /\ last.kind = "ok" /\ last.args.index = 2
    /\ Len(ItemsOf(last.pre, PathOn(RunDate))) = 2
    /\ IsOpen(ItemsOf(last.pre, PathOn(RunDate))[2])
    /\ IsDone(ItemsOf(disk, PathOn(RunDate))[2])

(***************************************************************************)
(* C11.  done on an item that is done already leaves its done_at as it     *)
(* was; done on an open item sets done_at to the time of the run; undone   *)
(* clears done_at whatever it was (so that a later done takes the time of  *)
(* that later run).                                                        *)
(***************************************************************************)
C11_CompletionIdempotent ==
    (last.cmd \in {"done", "undone"} /\ last.kind = "ok") =>
        /\ last.args.index \in 1..Len(ItemsOf(last.pre, PathOn(RunDate)))
        /\ ItemsOf(disk, PathOn(RunDate))[last.args.index].done_at
             = IF Ran1("undone") THEN None
               ELSE IF IsDone(ItemsOf(last.pre, PathOn(RunDate))[last.args.index])
                    THEN ItemsOf(last.pre, PathOn(RunDate))[last.args.index].done_at
                    ELSE Some(clock)

\* An item done at instant 0 has been marked done again at instant 1.
C11_Witness ==
    /\ Ran1("done") /\ last.kind = "ok" /\ clock = 1
    /\ last.args.index \in 1..Len(ItemsOf(last.pre, PathOn(RunDate)))
    /\ ItemsOf(last.pre, PathOn(RunDate))[last.args.index].done_at = Some(0)
    /\ ItemsOf(disk, PathOn(RunDate))[last.args.index].done_at = Some(0)

(***************************************************************************)
(* C12.  The path resolved for a date, an optional override root and an    *)
(* optional vault name is <root>/vaults/<vault>/<YYYY>/<MM>/<date>.json,   *)
(* where root is the override root when one is given and the platform data *)
(* directory otherwise, and vault is the normalised vault name.            *)
(***************************************************************************)
ClaimedRoot == IF last.cli.data_dir.some THEN last.cli.data_dir.val ELSE PlatformDataDir
ClaimedDayPart ==
    CASE RunDate = Jan10 -> <<"2025", "01", "2025-01-10.json">>
      [] RunDate = Jan11 -> <<"2025", "01", "2025-01-11.json">>
      [] RunDate = Mar5 -> <<"0987", "03", "0987-03-05.json">>

C12_PathUnderRootAndVault ==
    (Ran1("context") /\ last.kind = "ok") =>
        /\ last.out.val.date = RunDate
        /\ last.out.val.path
             = ClaimedRoot \o <<"vaults", StrOf(NormaliseOrDefault(last.cli.vault))>>
                 \o ClaimedDayPart

(***************************************************************************)
(* C13.  The path resolution fails exactly when the platform data          *)
(* directory cannot be determined and no override root is given; with an   *)
(* override root it succeeds.                                              *)
(***************************************************************************)
C13_FailsOnlyWithoutAnyRoot ==
    Ran1("context") =>
        (last.kind # "ok") = (~last.met.project_dirs.some /\ ~last.cli.data_dir.some)

(***************************************************************************)
(* C14.  When a commit migrate has saved the source day-file and the save  *)
(* of the destination day-file then fails, the run reports an error of its *)
(* own kind, which tells that the source has been modified, and not the    *)
(* error of the failed save.                                               *)
(***************************************************************************)
PlainKinds == {"ok", "Io", "Other", "InvalidData", "InvalidInput", "NotFound"}
SourceSaved ==
    /\ Ran1("migrate") /\ ~last.args.dry_run
    /\ last.met.fault # Fault("save", "create", "from")
    /\ last.met.fault # Fault("save", "write", "from")
    /\ \E k \in 1..Len(last.log) :
          /\ last.log[k] = LogEntry("write", PathOn(FromDate))
          /\ \E j \in 1..(k - 1) : last.log[j] = LogEntry("open", PathOn(FromDate))
          /\ \/ Exists(last.pre, PathOn(FromDate))
             \/ \E j \in 1..(k - 1) : last.log[j] = LogEntry("write", PathOn(FromDate))
DestSaveFailed ==
    /\ last.met.fault.site = "save" /\ last.met.fault.file = "to"
    /\ \E k \in 1..Len(last.log) : last.log[k] = LogEntry("open", PathOn(ToDate))
    /\ ~Unparseable(last.pre, PathOn(ToDate))

C14_PartialFailureReported ==
    (SourceSaved /\ DestSaveFailed) => last.kind \notin PlainKinds

(***************************************************************************)
(* C15.  The ids of the items of one day-file are pairwise distinct, and   *)
(* done, undone, edit and migrate leave every item its id: done, undone    *)
(* and edit keep the id at every position, and every item a migrate leaves *)
(* on disk is an item of the disk before it but for its migrated_from.     *)
(***************************************************************************)
IdsDistinctIn(items) ==
    \A i, j \in 1..Len(items) : items[i].id = items[j].id => i = j

ItemsOfDisk(d) == UNION { {ItemsOf(d, p)[k] : k \in 1..Len(ItemsOf(d, p))} : p \in DOMAIN d }

C15_IdsDistinctAndKept ==
    /\ \A p \in DOMAIN disk : IdsDistinctIn(ItemsOf(disk, p))
    /\ last.cmd \in {"done", "undone", "edit"} =>
          \A k \in 1..Len(ItemsOf(disk, PathOn(RunDate))) :
              /\ k <= Len(ItemsOf(last.pre, PathOn(RunDate)))
              /\ ItemsOf(disk, PathOn(RunDate))[k].id
                   = ItemsOf(last.pre, PathOn(RunDate))[k].id
    /\ Ran1("migrate") =>
          \A i \in ItemsOfDisk(disk) :
              \E o \in ItemsOfDisk(last.pre) :
                  [i EXCEPT !.migrated_from = o.migrated_from] = o

(***************************************************************************)
(* C16.  A new item has migrated_from = None; a commit migrate sets the    *)
(* migrated_from of every item it moves to its source date, whatever it    *)
(* was before; and no other run, and no run for an item it does not move,  *)
(* changes the migrated_from of an item on disk.  Hence, run after run,    *)
(* an item's migrated_from is None exactly when no commit migrate has      *)
(* moved it, and otherwise the source date of the last one that did.       *)
(***************************************************************************)
\* Of the items `before`, the one with this id.
Before(before, id) == CHOOSE o \in before : o.id = id

\* The commit migrate that has just ended has put this item of its source
\* (whose items were from_items) into the day-file with path p.
MovedNow(from_items, p, i) ==
    /\ Ran1("migrate") /\ ~last.args.dry_run
    /\ FromDate # ToDate
    /\ p = PathOn(ToDate)
    /\ \E k \in 1..Len(from_items) : from_items[k].id = i.id /\ IsOpen(from_items[k])

StampIsLastSource(before, from_items, p, items) ==
    \A k \in 1..Len(items) :
        items[k].migrated_from
          = IF MovedNow(from_items, p, items[k]) THEN Some(FromDate)
            ELSE IF \E o \in before : o.id = items[k].id
                 THEN Before(before, items[k].id).migrated_from
                 ELSE None

C16_MigratedFromIsLastSource ==
    last.cmd # "none" =>
        LET before == ItemsOfDisk(last.pre)
            from_items == IF Ran1("migrate") THEN ItemsOf(last.pre, PathOn(FromDate))
                          ELSE <<>>
        IN  \A p \in DOMAIN disk :
                StampIsLastSource(before, from_items, p, ItemsOf(disk, p))

\* An item that came from 2025-01-10 has been moved on from 2025-01-11.
C16_Witness ==
    /\ Ran1("migrate") /\ ~last.args.dry_run /\ last.kind = "ok"
    /\ FromDate = Jan11
    /\ \E k \in 1..Len(ItemsOf(disk, PathOn(ToDate))) :
          /\ MovedNow(ItemsOf(last.pre, PathOn(FromDate)), PathOn(ToDate),
                      ItemsOf(disk, PathOn(ToDate))[k])
          /\ Before(ItemsOfDisk(last.pre),
                    ItemsOf(disk, PathOn(ToDate))[k].id).migrated_from = Some(Jan10)
          /\ ItemsOf(disk, PathOn(ToDate))[k].migrated_from = Some(Jan11)

(***************************************************************************)
(* C17.  An add whose text is not blank appends one item to the end of the *)
(* day's items and leaves the items before it as they were.  The new item  *)
(* has the text without its leading and trailing whitespace, done_at,      *)
(* migrated_from and due None, and as tags the words of the text that      *)
(* start with '#', without that '#', in their order, repeated ones kept.   *)
(***************************************************************************)
Blank(c) == c \in {" ", "\n", "\t"}
Inked(s) == {i \in 1..Len(s) : ~Blank(s[i])}
Least(S) == CHOOSE i \in S : \A j \in S : i <= j
Greatest(S) == CHOOSE i \in S : \A j \in S : j <= i
ClaimedText(s) == SubSeq(s, Least(Inked(s)), Greatest(Inked(s)))

\* A word starts at i; it ends before the next blank.
WordStart(s, i) == ~Blank(s[i]) /\ (i = 1 \/ Blank(s[i - 1]))
WordEnd(s, i) == Least({j \in i..Len(s) : j = Len(s) \/ Blank(s[j + 1])})
RECURSIVE ClaimedTagsFrom(_, _)
ClaimedTagsFrom(s, i) ==
    IF i > Len(s) THEN <<>>
    ELSE (IF WordStart(s, i) /\ s[i] = "#" THEN <<SubSeq(s, i + 1, WordEnd(s, i))>>
          ELSE <<>>) \o ClaimedTagsFrom(s, i + 1)

AddedItem(items) == items[Len(items)]

C17_AddAppendsOneItem ==
    (Ran1("add") /\ Inked(last.args.text) # {}) =>
        /\ (Calm(last.met) /\ ~last.args.attach_notes
              /\ ~Unparseable(last.pre, PathOn(RunDate))) => last.kind = "ok"
        /\ last.kind = "ok" =>
              /\ Parses(disk, PathOn(RunDate))
              /\ Len(ItemsOf(disk, PathOn(RunDate)))
                   = Len(ItemsOf(last.pre, PathOn(RunDate))) + 1
              /\ SubSeq(ItemsOf(disk, PathOn(RunDate)), 1,
                        Len(ItemsOf(last.pre, PathOn(RunDate))))
                   = ItemsOf(last.pre, PathOn(RunDate))
              /\ AddedItem(ItemsOf(disk, PathOn(RunDate))).text
                   = ClaimedText(last.args.text)
              /\ AddedItem(ItemsOf(disk, PathOn(RunDate))).tags
                   = ClaimedTagsFrom(last.args.text, 1)
              /\ AddedItem(ItemsOf(disk, PathOn(RunDate))).done_at = None
              /\ AddedItem(ItemsOf(disk, PathOn(RunDate))).migrated_from = None
              /\ AddedItem(ItemsOf(disk, PathOn(RunDate))).due = None
              /\ \A p \in DOMAIN last.pre :
                    p # PathOn(RunDate) => Content(disk, p) = Content(last.pre, p)

\* A second item, with a tag that comes twice, has been added to a day.
C17_Witness ==
    /\ Ran1("add") /\ last.kind = "ok"
    /\ Len(ItemsOf(last.pre, PathOn(RunDate))) = 1
    /\ Len(ItemsOf(disk, PathOn(RunDate))) = 2
    /\ AddedItem(ItemsOf(disk, PathOn(RunDate))).tags = << <<"t">>, <<"u">>, <<"t">> >>
    /\ AddedItem(ItemsOf(disk, PathOn(RunDate))).text
         = <<"#", "t", " ", "b", " ", "#", "u", " ", "#", "t">>

(***************************************************************************)
(* C18.  An add or an edit with the notes flag whose editor exits with a   *)
(* status other than 0, or whose edited file cannot be read, ends with an  *)
(* error and leaves the day's items as they were.                          *)
(***************************************************************************)
EditorFailed ==
    /\ last.cmd \in {"add", "edit"} /\ last.args.attach_notes
    /\ last.met.editor.failure = "read" \/ last.met.editor.status # 0

C18_EditorFailureChangesNothing ==
    EditorFailed =>
        /\ last.kind # "ok"
        /\ ItemsOf(disk, PathOn(RunDate)) = ItemsOf(last.pre, PathOn(RunDate))

(***************************************************************************)
(* C19.  A commit migrate loads both day-files before it saves either: if  *)
(* the load of the destination fails (the file does not parse, or cannot   *)
(* be opened or created), the source on disk holds all the items it had.   *)
(***************************************************************************)
DestOpened == \E k \in 1..Len(last.log) : last.log[k] = LogEntry("open", PathOn(ToDate))
DestLoadFailed ==
    /\ Ran1("migrate") /\ ~last.args.dry_run /\ FromDate # ToDate
    /\ DestOpened
    /\ last.kind # "ok"
    /\ last.met.fault.site \notin {"render", "save"}

C19_SourceKeptWhenDestinationFails ==
    DestLoadFailed =>
        ItemsOf(disk, PathOn(FromDate)) = ItemsOf(last.pre, PathOn(FromDate))

(***************************************************************************)
(* C20.  A commit migrate that has saved its source and stops before the   *)
(* save of its destination completes leaves the source with its done items *)
(* only and every open item of the source in no day-file.  As claimed: the *)
(* destination file is then as it was.  As amended: the destination is as  *)
(* it was, or it did not exist and is now an empty day-file, or its write  *)
(* was cut short and it no longer parses.                                  *)
(***************************************************************************)
StoppedAfterSourceSave == SourceSaved /\ FromDate # ToDate /\ last.kind # "ok"

SourceHoldsDoneOnly ==
    /\ Parses(disk, PathOn(FromDate))
    /\ ItemsOf(disk, PathOn(FromDate))
         = SelectSeq(ItemsOf(last.pre, PathOn(FromDate)), IsDone)
OpenItemsInNoFile ==
    \A k \in 1..Len(ItemsOf(last.pre, PathOn(FromDate))) :
        IsOpen(ItemsOf(last.pre, PathOn(FromDate))[k]) =>
            Copies(disk, ItemsOf(last.pre, PathOn(FromDate))[k].id) = 0

DestinationAsItWas == Content(disk, PathOn(ToDate)) = Content(last.pre, PathOn(ToDate))
DestinationCreatedEmpty ==
    /\ ~Exists(last.pre, PathOn(ToDate))
    /\ Parses(disk, PathOn(ToDate))
    /\ FromJson(disk[PathOn(ToDate)].doc) = DayFile(ToDate, <<>>)
DestinationCutShort ==
    /\ last.met.fault.mode = "write" /\ last.met.fault.file = "to"
    /\ Unparseable(disk, PathOn(ToDate))

C20_DestinationUnchanged ==
    StoppedAfterSourceSave =>
        SourceHoldsDoneOnly /\ OpenItemsInNoFile /\ DestinationAsItWas

C20_OpenItemsLostBetweenSaves ==
    StoppedAfterSourceSave =>
        /\ SourceHoldsDoneOnly
        /\ OpenItemsInNoFile
        /\ DestinationAsItWas \/ DestinationCreatedEmpty \/ DestinationCutShort
        /\ \A p \in DOMAIN disk :
              p \notin {PathOn(FromDate), PathOn(ToDate)}
                 => Content(disk, p) = Content(last.pre, p)

\* An open item has gone from its source and the destination, which held an
\* item of its own, is as it was.
C20_Witness ==
    /\ StoppedAfterSourceSave
    /\ Len(ItemsOf(disk, PathOn(FromDate))) < Len(ItemsOf(last.pre, PathOn(FromDate)))
    /\ Len(ItemsOf(disk, PathOn(ToDate))) = 1
    /\ DestinationAsItWas

(***************************************************************************)
(* C23.  An edit at a position within the list, with a new text and        *)
(* without the notes flag, changes the text of the item at that position   *)
(* and nothing else: not its tags, notes, priority, id, created_at,        *)
(* done_at or migrated_from, no other item, and not the order.             *)
(***************************************************************************)
C23_EditChangesOnlyText ==
    (/\ Ran1("edit") /\ last.kind = "ok"
     /\ last.args.text.some /\ ~last.args.attach_notes) =>
        /\ last.args.index \in 1..Len(ItemsOf(last.pre, PathOn(RunDate)))
        /\ ItemsOf(disk, PathOn(RunDate))
             = [ItemsOf(last.pre, PathOn(RunDate)) EXCEPT
                  ![last.args.index].text = ClaimedText(last.args.text.val)]

(***************************************************************************)
(* C24.  Every day-file on disk that parses holds, in its date field, the  *)
(* date its path is the path of: <year>/<month>/<date>.json at the end of  *)
(* the path are those of the stored date.  A migrate in particular leaves  *)
(* each of its two files with its own date.                                *)
(***************************************************************************)
PathIsOf(p, date) ==
    /\ Len(p) >= 3
    /\ p[Len(p)] = StrOf(FormatDate(date)) \o ".json"
    /\ p[Len(p) - 1] = StrOf(ZeroPad(date.month, 2))
    /\ p[Len(p) - 2] = StrOf(ZeroPad(date.year, 4))

C24_StoredDateIsPathDate ==
    \A p \in DOMAIN disk :
        Parses(disk, p) => PathIsOf(p, FromJson(disk[p].doc).date)

\* A commit migrate has written both of its day-files, and an item has moved.
C24_Witness ==
    /\ Ran1("migrate") /\ ~last.args.dry_run /\ last.kind = "ok"
    /\ Len(ItemsOf(disk, PathOn(ToDate))) > Len(ItemsOf(last.pre, PathOn(ToDate)))
    /\ FromJson(disk[PathOn(FromDate)].doc).date = FromDate
    /\ FromJson(disk[PathOn(ToDate)].doc).date = ToDate

(***************************************************************************)
(* C22.  For the same date and the same root (an override or the platform  *)
(* default), two vault names resolve to the same path exactly when they    *)
(* normalise to the same name: vaults with different normalised names are  *)
(* kept in different files.                                                *)
(***************************************************************************)
InVault(v) ==
    CurrentDayContext([last.cli EXCEPT !.vault = v],
                      [today |-> last.today, project_dirs |-> last.met.project_dirs,
                       now |-> 0, id |-> <<>>, editor |-> NoEditor, fault |-> NoFault])

C22_VaultsApartIffNamesDiffer ==
    (Ran1("context") /\ last.kind = "ok") =>
        \A v \in {None} \cup {Some(n) : n \in VaultNames} :
            /\ InVault(v).ok
            /\ (InVault(v).val.path = last.out.val.path)
                 = (NormaliseOrDefault(v) = NormaliseOrDefault(last.cli.vault))

(***************************************************************************)
(* C21.  Two invocations of add on the same date: when one has saved       *)
(* before the other loads, the day-file holds both new items, in the order *)
(* of the invocations; when both have loaded before either saves, the      *)
(* day-file holds the item of the invocation that saved last, and the      *)
(* other item is lost.                                                     *)
(***************************************************************************)
BothAdded ==
    /\ \A i \in Procs : running.procs[i].pc = "exited" /\ running.procs[i].kind = "ok"
    /\ running.procs[1].o.path = running.procs[2].o.path
Turn(n) == running.steps[n][1]
OneAfterTheOther == running.steps[1][1] = running.steps[2][1]
BothLoadedFirst == running.steps[1][2] = "load" /\ running.steps[2][2] = "load"
IsItemOf(item, i) == item.id = NanoId(i) /\ item.text = running.procs[i].text

C21_SideBySideAddsLoseOne ==
    BothAdded =>
        LET items == ItemsOf(disk, running.procs[1].o.path)
        IN  /\ Len(running.steps) = 4
            /\ OneAfterTheOther \/ BothLoadedFirst
            /\ OneAfterTheOther =>
                  /\ Len(items) = 2
                  /\ IsItemOf(items[1], Turn(1))
                  /\ IsItemOf(items[2], Turn(3))
            /\ BothLoadedFirst =>
                  /\ Len(items) = 1
                  /\ IsItemOf(items[1], Turn(4))

\* Both invocations loaded, then both saved, and one item is on disk.
C21_Witness ==
    /\ BothAdded /\ BothLoadedFirst
    /\ Len(ItemsOf(disk, running.procs[1].o.path)) = 1

====
